---- MODULE Spec2Model ----
(***************************************************************************)
(* stepwise_selection of stock_estimate.py: forward-backward feature       *)
(* selection on OLS p-values.  The OLS fit is an external collaborator:    *)
(* it is modelled by pv, a table giving the p-value of every feature in    *)
(* every fit (a fit is identified by its set of columns).  p-values and    *)
(* thresholds are small integers; only their order matters to the code.    *)
(***************************************************************************)
EXTENDS Integers, Sequences, FiniteSets, TLC

\* ------------------------------------------------------------------ bounds
\* p-values and thresholds range over 0..MaxP
MaxP == 3
\* the pass counter and the drop counter saturate here
MaxPasses == 7

\* ------------------------------------------------------------------ data
Columns == {"a", "b", "c"}
\* the feature matrices enumerated: X with 0, 1, 2 or 3 columns
ColumnSets == {{}, {"a"}, {"a", "b"}, {"a", "b", "c"}}
\* matrices for which every p-value table over 0..MaxP is enumerated
FullRangeCols == {"a", "b"}

NoFeature == "none"
NoResult == <<>>
\* float NaN: min()/max() of an empty Series
NaN == -1

PVals == 0..MaxP
Thresholds == 0..MaxP

Range(s) == {s[i] : i \in 1..Len(s)}
NoDup(s) == \A i, j \in 1..Len(s) : s[i] = s[j] => i = j
Min2(x, y) == IF x < y THEN x ELSE y

\* every list over exactly the members of S: the possible results of list(set)
Orderings(S) == {s \in [1..Cardinality(S) -> S] : Range(s) = S}

\* (feature, columns of the fit) pairs with the feature in the fit
Fits(cs) == {p \in cs \X (SUBSET cs) : p[1] \in p[2]}

\* tables in which a feature's p-value is the same in every fit
IsSubsetIndependent(t) ==
    \A p, q \in DOMAIN t : p[1] = q[1] => t[p] = t[q]

\* the p-value tables enumerated for a matrix with columns cs
Assignments(cs) ==
    IF cs \subseteq FullRangeCols
    THEN [Fits(cs) -> PVals]
    ELSE [Fits(cs) -> {0, MaxP}]
         \cup {[p \in Fits(cs) |-> u[p[1]]] : u \in [cs -> PVals]}

\* initial_list: column names of X, no duplicates
InitialLists(cs) == UNION {Orderings(S) : S \in SUBSET cs}

\* a wider matrix with p-values that depend on the fit: enumerated with the
\* p-values 0 and MaxP only, thresholds strictly between them, and the
\* default (empty) initial list
WideDependent(cs, t) == ~(cs \subseteq FullRangeCols) /\ ~IsSubsetIndependent(t)

VARIABLES
    cols,       \* X.columns
    pv,         \* p-value of each feature in each fit
    threshold_in,
    threshold_out,
    initial,    \* initial_list
    included,
    changed,
    pc,         \* "forward", "backward" or "done" (returned)
    passes,     \* executions of the loop body so far
    appended,   \* feature appended by this pass's forward step
    removed,    \* feature removed by this pass's backward step
    belowSeen,  \* some forward p-value was < threshold_in in this call
    drops,      \* 'Drop' lines printed in this call
    first       \* result of the previous call on the same arguments

vars == <<cols, pv, threshold_in, threshold_out, initial, included, changed,
          pc, passes, appended, removed, belowSeen, drops, first>>

inputs == <<cols, pv, threshold_in, threshold_out, initial>>

\* ------------------------------------------------------------------ fit
\* model.pvalues[f] of sm.OLS(y, X[fitcols]).fit()
pvalue(f, fitcols) == pv[<<f, Range(fitcols)>>]

\* comparisons with NaN are False
Less(x, y) == x # NaN /\ y # NaN /\ x < y
Greater(x, y) == x # NaN /\ y # NaN /\ x > y

\* Series.min() / Series.max(); s is the sequence of values
SeriesMin(s) ==
    IF Len(s) = 0 THEN NaN
    ELSE CHOOSE m \in Range(s) : \A i \in 1..Len(s) : m <= s[i]
SeriesMax(s) ==
    IF Len(s) = 0 THEN NaN
    ELSE CHOOSE m \in Range(s) : \A i \in 1..Len(s) : m >= s[i]

\* Series.argmin() / argmax(): position of the first occurrence
argminAsArgmax(s) ==
    CHOOSE i \in 1..Len(s) : s[i] = SeriesMax(s) /\ \A j \in 1..(i-1) : s[j] # s[i]
argmin(s) ==
    CHOOSE i \in 1..Len(s) : s[i] = SeriesMin(s) /\ \A j \in 1..(i-1) : s[j] # s[i]
argmaxLast(s) ==
    CHOOSE i \in 1..Len(s) : s[i] = SeriesMax(s) /\ \A j \in (i+1)..Len(s) : s[j] # s[i]
argmax(s) ==
    CHOOSE i \in 1..Len(s) : s[i] = SeriesMax(s) /\ \A j \in 1..(i-1) : s[j] # s[i]

\* list.remove(x): drops the first occurrence of x
RECURSIVE Remove(_, _)
Remove(s, x) ==
    IF s = <<>> THEN <<>>
    ELSE IF Head(s) = x THEN Tail(s)
    ELSE <<Head(s)>> \o Remove(Tail(s), x)

\* set(X.columns) - set(included)
ExcludedAll(cs, inc) == cs
ExcludedSet(cs, inc) == cs \ Range(inc)

\* if best_pval < threshold_in
ShouldAddLeq(best_pval) == best_pval # NaN /\ best_pval <= threshold_in
ShouldAddFlipped(best_pval) == Greater(best_pval, threshold_in)
ShouldAdd(best_pval) == Less(best_pval, threshold_in)

\* if worst_pval > threshold_out
ShouldDrop(worst_pval) == Greater(worst_pval, threshold_out)

\* changed=False at the top of the loop body
ChangedStale == changed
ChangedAtPassStart == FALSE

\* if not changed: break
LoopExitAlways(ch) == TRUE
LoopExitNever(ch) == FALSE
LoopExit(ch) == ~ch

\* ------------------------------------------------------------------ actions
Init ==
    /\ cols \in ColumnSets
    /\ pv \in Assignments(cols)
    /\ threshold_in \in Thresholds
    /\ threshold_out \in Thresholds
    /\ initial \in InitialLists(cols)
    /\ WideDependent(cols, pv) =>
          /\ threshold_in = 1
          /\ threshold_out = MaxP - 1
          /\ initial = <<>>
    /\ included = initial
    /\ changed = FALSE
    /\ pc = "forward"
    /\ passes = 0
    /\ appended = NoFeature
    /\ removed = NoFeature
    /\ belowSeen = FALSE
    /\ drops = 0
    /\ first = NoResult

\* lines 24-37: changed=False, then the forward step
Forward ==
    /\ pc = "forward"
    /\ \E excluded \in Orderings(ExcludedSet(cols, included)) :
         LET new_pval == [i \in 1..Len(excluded) |->
                             pvalue(excluded[i], included \o <<excluded[i]>>)]
             best_pval == SeriesMin(new_pval)
         IN  /\ belowSeen' = (belowSeen \/ \E i \in 1..Len(excluded) :
                                              new_pval[i] < threshold_in)
             /\ IF ShouldAdd(best_pval)
                THEN LET best_feature == excluded[argmin(new_pval)]
                     IN  /\ included' = Append(included, best_feature)
                         /\ changed' = TRUE
                         /\ appended' = best_feature
                ELSE /\ included' = included
                     /\ changed' = ChangedAtPassStart
                     /\ appended' = NoFeature
    /\ removed' = NoFeature
    /\ passes' = Min2(passes + 1, MaxPasses)
    /\ pc' = "backward"
    /\ UNCHANGED <<inputs, drops, first>>

\* lines 39-50: the backward step and the loop's exit test
Backward ==
    /\ pc = "backward"
    /\ LET pvalues == [i \in 1..Len(included) |-> pvalue(included[i], included)]
           worst_pval == SeriesMax(pvalues)
       IN  IF ShouldDrop(worst_pval)
           THEN LET worst_feature == included[argmax(pvalues)]
                IN  /\ changed' = TRUE
                    /\ included' = Remove(included, worst_feature)
                    /\ removed' = worst_feature
                    /\ drops' = Min2(drops + 1, MaxPasses)
           ELSE /\ UNCHANGED <<changed, included, drops>>
                /\ removed' = NoFeature
    /\ pc' = IF LoopExit(changed') THEN "done" ELSE "forward"
    /\ UNCHANGED <<inputs, passes, appended, belowSeen, first>>

\* a second call of stepwise_selection on the same X, y, initial_list and
\* thresholds (the script run again)
Rerun ==
    /\ pc = "done"
    /\ first = NoResult
    /\ first' = <<included>>
    /\ included' = initial
    /\ changed' = FALSE
    /\ pc' = "forward"
    /\ passes' = 0
    /\ appended' = NoFeature
    /\ removed' = NoFeature
    /\ belowSeen' = FALSE
    /\ drops' = 0
    /\ UNCHANGED inputs

Next == Forward \/ Backward
Spec == Init /\ [][Next]_vars

\* the calls enumerated for the termination check: those of Init that keep
\* the docstring's threshold_in < threshold_out, without the wide matrices
\* with subset-dependent p-values
InitLive ==
    /\ Init
    /\ threshold_in < threshold_out
    /\ ~WideDependent(cols, pv)

\* the loop is sequential code: a step that can be taken is taken
FairSpec == InitLive /\ [][Next]_vars /\ WF_vars(Next)

NextRerun == Forward \/ Backward \/ Rerun
SpecRerun == Init /\ [][NextRerun]_vars

\* ------------------------------------------------------------------ claims
\* p-value of f in the fit on the columns S
P(f, S) == pv[<<f, S>>]
Card(S) == Cardinality(S)
Max2(x, y) == IF x > y THEN x ELSE y
\* position of x in the duplicate-free list t
Pos(t, x) == CHOOSE i \in 1..Len(t) : t[i] = x
\* s lists members of the duplicate-free list t in t's order
IsSubseq(s, t) ==
    /\ Range(s) \subseteq Range(t)
    /\ \A i, j \in 1..Len(s) : i < j => Pos(t, s[i]) < Pos(t, s[j])
\* list s without its i-th element
DeleteAt(s, i) == [k \in 1..(Len(s) - 1) |-> IF k < i THEN s[k] ELSE s[k + 1]]

C2_FixedPointOnExit ==
    pc = "done" =>
        /\ \A f \in Range(included) : ~(P(f, Range(included)) > threshold_out)
        /\ \A f \in cols \ Range(included) :
               ~(P(f, Range(included) \cup {f}) < threshold_in)

C2_Witness ==
    /\ pc = "done"
    /\ included # initial
    /\ included # <<>>
    /\ cols \ Range(included) # {}
    /\ drops >= 1

\* C3: after every forward and backward step and on return, every name of
\* included is a column of X and no name occurs twice.
C3_IncludedValid == Range(included) \subseteq cols /\ NoDup(included)

C3_Witness ==
    /\ pc = "done"
    /\ drops >= 1
    /\ Len(included) >= 2
    /\ Range(included) # Range(initial)

\* C4 (as claimed): with threshold_in >= threshold_out no forward or backward
\* step runs and no list is returned.
C4_ConfigRejected ==
    threshold_in >= threshold_out => (pc = "forward" /\ passes = 0)

\* C5 (as claimed): if no forward p-value is ever below threshold_in, the
\* initial list is returned unchanged.
C5_InitialReturned ==
    (pc = "done" /\ ~belowSeen) => included = initial

\* C5 (amended): if no forward p-value is ever below threshold_in, the result
\* is the initial list without the features the backward steps dropped, the
\* others in their original order; it is the initial list when none was dropped.
C5_InitialMinusDropped ==
    (pc = "done" /\ ~belowSeen) =>
        /\ IsSubseq(included, initial)
        /\ Len(included) = Len(initial) - drops

C5_Witness ==
    /\ pc = "done"
    /\ ~belowSeen
    /\ drops = 1
    /\ Len(included) = 2
    /\ cols \ Range(included) # {}

C7_ForwardStep ==
    [][pc = "forward" =>
        LET S == Range(included)
            ex == cols \ S
        IN  IF ex # {} /\ \E f \in ex : P(f, S \cup {f}) < threshold_in
            THEN /\ \E f \in ex :
                      /\ \A g \in ex : P(f, S \cup {f}) <= P(g, S \cup {g})
                      /\ included' = Append(included, f)
                 /\ changed'
            ELSE included' = included /\ ~changed']_vars

C7_Witness ==
    /\ pc = "backward"
    /\ appended # NoFeature
    /\ Card(cols \ Range(included)) >= 1
    /\ Len(included) >= 2

\* C8: the backward step removes one feature exactly when included is not
\* empty and the maximum p-value of the fit on included is > threshold_out; it
\* removes the first feature of included that has that maximum and keeps the
\* others in order; otherwise it leaves included unchanged.
C8_BackwardStep ==
    [][pc = "backward" =>
        LET S == Range(included)
        IN  IF included # <<>> /\ \E f \in S : P(f, S) > threshold_out
            THEN \E i \in 1..Len(included) :
                    /\ \A j \in 1..Len(included) : P(included[j], S) <= P(included[i], S)
                    /\ \A j \in 1..(i - 1) : P(included[j], S) < P(included[i], S)
                    /\ included' = DeleteAt(included, i)
            ELSE included' = included]_vars

C8_Witness ==
    /\ pc # "backward"
    /\ removed # NoFeature
    /\ Len(included) = 2
    /\ \E f \in Range(included) :
          P(f, Range(included) \cup {removed}) = P(removed, Range(included) \cup {removed})

\* C9: with threshold_in < threshold_out the feature appended by a pass's
\* forward step is not the feature removed by the same pass's backward step.
C9_NoAddThenDrop ==
    threshold_in < threshold_out => (removed = NoFeature \/ removed # appended)

C9_Witness ==
    /\ threshold_in < threshold_out
    /\ appended # NoFeature
    /\ removed # NoFeature

\* C9, second half: without the condition on the thresholds the statement
\* fails (a p-value above threshold_out and below threshold_in)
C9_NoAddThenDropAnyThresholds == removed = NoFeature \/ removed # appended

\* C10: two calls with the same X, y, initial_list and thresholds return the
\* same list.
C10_SameResult ==
    (pc = "done" /\ first # NoResult) => included = first[1]
====
